---- MODULE Spec2Model ----
(***************************************************************************)
(* Model of scripts/parallel_processor.py: the download / transcription    *)
(* pipeline of ParallelProcessor.  The status store (table hearings), the  *)
(* videos and chunks directories, the two asyncio queues, the download and *)
(* transcription workers and process_hearings are the state machine; one   *)
(* action per stretch of code between two suspension points (an await on   *)
(* the event loop, a step of transcribe_video in its executor thread).     *)
(* The chunk planner (split_audio_with_silence_detection) and merge_chunks *)
(* are modelled as they compute, each under a specification of its own     *)
(* that draws the inputs in its initial states.                            *)
(***************************************************************************)
EXTENDS Integers, Sequences, FiniteSets, TLC

\* ---------------------------------------------------------------- bounds
\* Number of rows of table hearings under Spec; WideSpec has one more.
NJobs == 2
\* process_hearings runs (process starts) in one behaviour.
MaxRuns == 2
\* Largest number of chunks the planner cuts for one recording.
MaxChunks == 2

\* cpu_count() of the host.
total_cores == 4

\* Longest recording the planner is given, in half seconds.
MaxDuration == 12
\* Longest chunk_duration the planner is given, in half seconds.
MaxChunkLen == 4
\* Most silence periods silencedetect reports.
MaxSilences == 2

\* Most chunk results merge_chunks is given.
MaxResults == 2
\* Most segments of one chunk result.
MaxSegments == 2
\* Latest start time of a segment.
MaxStart == 1
\* Most "+= 1" statements on the transcription counters that are begun.
MaxIncrements == 4

\* Times are counted in half seconds.  "chunk_duration > 0.5": 0.5 s.
MinChunkTicks == 1
\* "target_end + 5": 5 s.
LookaheadTicks == 10

\* max_retries of download_video.
max_retries == 3


\* The shutdown signal put on a queue (None in the source).
None == [id |-> 0, video_file_path |-> FALSE]

VARIABLES
    db,                 \* table hearings: one row per job
    videos,             \* videos_dir/{id}.mp4: "none", "empty", "partial", "full"
    audio,              \* jobs with temp_dir/{id}_full.wav on disk
    chunks,             \* per job, the indices of temp_dir/{id}_chunk_NNN.wav on disk
    delete_after,       \* DELETE_AFTER_TRANSCRIPTION
    id_is_str,          \* the driver returns hearings.id as str (text column), else as int
    max_downloads,      \* self.max_downloads, the size of the download pool
    max_transcriptions, \* self.max_transcriptions, the size of the transcription pool
    run,                \* process starts so far
    main_pc,            \* position of process_hearings
    cleaned_videos,     \* local of cleanup_orphaned_files
    cleaned_chunks,     \* local of cleanup_orphaned_files
    hearings_to_download,   \* local of process_hearings
    hearings_to_transcribe, \* local of process_hearings
    stale,              \* rows with updated_at < NOW() - 30 minutes at the last fetch
    download_queue,
    transcription_queue,
    d_unfinished,       \* download_queue._unfinished_tasks
    t_unfinished,       \* transcription_queue._unfinished_tasks
    dw,                 \* download workers: pc, hearing, retry_count
    tw,                 \* transcription workers: pc, hearing, nchunks, fault, raised, failed0,
                        \* chunk_failed (history: a chunk worker of the pool raised)
    performance_stats,
    dlend,              \* history: how download_video returned for the job, this run
    errPassed,          \* history: error_msg passed with the job's last 'failed' write, this run
    exhausted,          \* history: jobs marked 'failed' after max retries in an earlier run
    orphans,            \* history: rows 'processing' at this run's fetch, not queued since
    puts,               \* history: per queue and job, the put() calls of this run
    duration,           \* split_audio_with_silence_detection: get_audio_duration(), in half seconds
    chunk_duration,     \* self.chunk_duration, in half seconds
    silence_periods,    \* the parsed silencedetect output
    current_start,      \* local of split_audio_with_silence_detection
    chunk_num,          \* local of split_audio_with_silence_detection
    split_chunks,       \* the list `chunks` split_audio_with_silence_detection builds
    chunk_results,      \* merge_chunks: its argument, in the order passed in
    merged,             \* merge_chunks: its return value, <<>> before the call
    passed_in,          \* history: merge_chunks' argument as it was passed in
    model_segments,     \* per chunk of the plan, the segments model.transcribe() yields
    increments,         \* executor threads at a "+= 1" of a counter: pc, key, reg
    executed            \* history: the "+= 1" statements that ran to their end

vars == <<db, videos, audio, chunks, delete_after, id_is_str, max_downloads, max_transcriptions, run, main_pc, cleaned_videos,
          cleaned_chunks, hearings_to_download, hearings_to_transcribe, stale,
          download_queue, transcription_queue, d_unfinished, t_unfinished,
          dw, tw, performance_stats, dlend, errPassed, exhausted, orphans, puts,
          duration, chunk_duration, silence_periods, current_start, chunk_num,
          split_chunks, chunk_results, merged, passed_in,
          model_segments, increments, executed>>

config == <<delete_after, id_is_str, max_downloads, max_transcriptions>>
\* The ids of the rows of table hearings, 1..n in created_at order.
Jobs == DOMAIN db
\* "for i in range(self.max_downloads)": the download worker tasks.
DWorkersOneMore == 1..(max_downloads + 1)
DWorkers == 1..max_downloads
\* "for i in range(self.max_transcriptions)": the transcription worker tasks.
TWorkers == 1..max_transcriptions
fileVars == <<videos, audio, chunks>>
cleanupVars == <<cleaned_videos, cleaned_chunks>>
fetchVars == <<hearings_to_download, hearings_to_transcribe, stale>>
queueVars == <<download_queue, transcription_queue, d_unfinished, t_unfinished>>
histVars == <<dlend, errPassed, exhausted, orphans, puts>>
planVars == <<duration, chunk_duration, silence_periods, current_start, chunk_num,
              split_chunks>>
mergeVars == <<chunk_results, merged, passed_in>>
raceVars == <<increments, executed>>
extraVars == <<model_segments, raceVars>>
toolVars == <<planVars, mergeVars, extraVars>>

\* ------------------------------------------------------------- helpers
Range(s) == {s[i] : i \in 1..Len(s)}

Min(a, b) == IF a < b THEN a ELSE b

\* How often x occurs in the list.
Count(list, x) == Cardinality({i \in 1..Len(list) : list[i] = x})

\* The first n elements of a sequence (SQL LIMIT n).
Limit(s, n) == SubSeq(s, 1, Min(n, Len(s)))

\* The rows of `S` in ascending id order (ORDER BY created_at ASC).
RECURSIVE OrderByCreatedAt(_)
OrderByCreatedAt(S) ==
    IF S = {} THEN <<>>
    ELSE LET m == CHOOSE x \in S : \A y \in S : x <= y
         IN <<m>> \o OrderByCreatedAt(S \ {m})

\* A fresh row: both phases pending, nothing recorded.
NewRow == [download_status |-> "pending", transcription_status |-> "pending",
           retry_count |-> 0, error_message |-> "none", video_file_path |-> FALSE]

\* _update_status_sync: the UPDATE sets the status column (and a started_at
\* timestamp); error_msg is a parameter no statement uses.
_update_status_sync(d, hearing_id, status_field, status_value, error_msg) ==
    [d EXCEPT ![hearing_id][status_field] = status_value]

\* _update_download_complete_sync: the status and the file name are stored.
_update_download_complete_sync(d, hearing_id) ==
    [d EXCEPT ![hearing_id].download_status = "completed",
              ![hearing_id].video_file_path = TRUE]

\* _update_transcription_complete_sync
_update_transcription_complete_sync(d, hearing_id) ==
    [d EXCEPT ![hearing_id].transcription_status = "completed"]

\* video_path.exists() and video_path.stat().st_size > 0
AlreadyDownloaded(j) == videos[j] \in {"partial", "full"}

IdleD == [pc |-> "get", hearing |-> None, retry_count |-> 0]
IdleT == [pc |-> "get", hearing |-> None, nchunks |-> 0, fault |-> "none",
          raised |-> FALSE, failed0 |-> 0, chunk_failed |-> FALSE]
ZeroPuts == [d |-> [j \in Jobs |-> 0], t |-> [j \in Jobs |-> 0]]
ZeroStats == [d_successful |-> 0, d_failed |-> 0, t_successful |-> 0, t_failed |-> 0]

\* ParallelProcessor.__init__: empty queues, zeroed counters.
Construct ==
    /\ main_pc' = "idle"
    /\ cleaned_videos' = 0
    /\ cleaned_chunks' = 0
    /\ hearings_to_download' = <<>>
    /\ hearings_to_transcribe' = <<>>
    /\ stale' = {}
    /\ download_queue' = <<>>
    /\ transcription_queue' = <<>>
    /\ d_unfinished' = 0
    /\ t_unfinished' = 0
    /\ dw' = [w \in DWorkers |-> IdleD]
    /\ tw' = [w \in TWorkers |-> IdleT]
    /\ performance_stats' = ZeroStats
    /\ dlend' = [j \in Jobs |-> "none"]
    /\ errPassed' = [j \in Jobs |-> "none"]
    /\ orphans' = {}
    /\ puts' = ZeroPuts

\* The state after construction with pools of nd and nt workers, on one of
\* the given stores and empty tmp directories.
InitWith(stores, nd, nt) ==
    /\ max_downloads = nd
    /\ max_transcriptions = nt
    /\ db \in stores
    /\ videos = [j \in Jobs |-> "none"]
    /\ audio = {}
    /\ chunks = [j \in Jobs |-> {}]
    /\ delete_after \in BOOLEAN
    /\ id_is_str \in BOOLEAN
    /\ run = 1
    /\ main_pc = "idle"
    /\ cleaned_videos = 0
    /\ cleaned_chunks = 0
    /\ hearings_to_download = <<>>
    /\ hearings_to_transcribe = <<>>
    /\ stale = {}
    /\ download_queue = <<>>
    /\ transcription_queue = <<>>
    /\ d_unfinished = 0
    /\ t_unfinished = 0
    /\ dw = [w \in DWorkers |-> IdleD]
    /\ tw = [w \in TWorkers |-> IdleT]
    /\ performance_stats = ZeroStats
    /\ dlend = [j \in Jobs |-> "none"]
    /\ errPassed = [j \in Jobs |-> "none"]
    /\ exhausted = {}
    /\ orphans = {}
    /\ puts = ZeroPuts

\* A store of n rows, all new.
NewStore(n) == [j \in 1..n |-> NewRow]

\* No recording is being split and no chunk results are being merged.
ToolsIdle ==
    /\ duration = 0
    /\ chunk_duration = 1
    /\ silence_periods = <<>>
    /\ current_start = 0
    /\ chunk_num = 0
    /\ split_chunks = <<>>
    /\ chunk_results = <<>>
    /\ merged = <<>>
    /\ passed_in = <<>>

\* No pool is running and no thread is at a counter.
ExtrasIdle ==
    /\ model_segments = <<>>
    /\ increments = <<>>
    /\ executed = 0

Init == InitWith({NewStore(NJobs)}, 1, 1) /\ ToolsIdle /\ ExtrasIdle

\* ------------------------------------------------------ process_hearings
\* cleanup_orphaned_files: the videos of rows with transcription 'completed'
\* are unlinked, every *_chunk_*.wav is unlinked.
CompletedIds == {j \in Jobs : db[j].transcription_status = "completed"}
\* "if hearing_id in completed_ids", for the file {j}.mp4: hearing_id is
\* video_file.stem, a str, and completed_ids holds row[0] as the driver
\* returns it; a str is a member only of a set of str.
CleanupMatches(j) == id_is_str /\ j \in CompletedIds
CleanupUnlinks(j) == videos[j] # "none" /\ CleanupMatches(j)

cleanup_orphaned_files ==
    /\ main_pc = "idle"
    /\ run <= MaxRuns
    /\ videos' = [j \in Jobs |-> IF CleanupUnlinks(j) THEN "none" ELSE videos[j]]
    /\ chunks' = [j \in Jobs |-> {}]
    /\ cleaned_videos' = Cardinality({j \in Jobs : CleanupUnlinks(j)})
    /\ cleaned_chunks' = Cardinality({<<j, c>> \in Jobs \X (0..MaxChunks) : c \in chunks[j]})
    /\ main_pc' = "cleaned"
    /\ UNCHANGED <<db, audio, config, toolVars, run, fetchVars, queueVars, dw, tw,
                   performance_stats, histVars>>

\* The first SELECT of process_hearings.
RetryCeiling == 3
PendingDownload(j, staleRows) ==
    \/ db[j].download_status = "pending"
    \/ /\ db[j].download_status = "failed"
       /\ (db[j].retry_count < RetryCeiling \/ db[j].transcription_status # "completed")
    \/ db[j].download_status = "downloading" /\ j \in staleRows

\* "LIMIT %s" with (self.max_downloads * 2,)
DownloadLimitHalved == max_downloads
DownloadLimit == max_downloads * 2

\* The second SELECT of process_hearings.
PendingTranscriptionAnyDownload(j) == db[j].transcription_status = "pending"
PendingTranscription(j) ==
    /\ db[j].download_status = "completed"
    /\ db[j].transcription_status = "pending"

\* Both SELECTs; the workers are created but do not run before the first await
\* that suspends (download_queue.join()).
Fetch ==
    /\ main_pc = "cleaned"
    /\ \E staleRows \in SUBSET {j \in Jobs : db[j].download_status = "downloading"} :
        /\ stale' = staleRows
        /\ hearings_to_download' =
              Limit(OrderByCreatedAt({j \in Jobs : PendingDownload(j, staleRows)}),
                    DownloadLimit)
    /\ hearings_to_transcribe' = OrderByCreatedAt({j \in Jobs : PendingTranscription(j)})
    /\ orphans' = {j \in Jobs : db[j].transcription_status = "processing"}
    /\ cleaned_videos' = 0
    /\ cleaned_chunks' = 0
    /\ main_pc' = "fetched"
    /\ UNCHANGED <<db, fileVars, config, toolVars, run, queueVars, dw, tw,
                   performance_stats, dlend, errPassed, exhausted, puts>>

\* The hearing dicts: rows of the first SELECT carry no video_file_path key,
\* rows of the second carry the stored file name.
DownloadHearing(j) == [id |-> j, video_file_path |-> FALSE]
TranscribeHearing(j) == [id |-> j, video_file_path |-> db[j].video_file_path]

\* "Add items to queues"; then download_queue.join() is awaited.
Enqueue ==
    /\ main_pc = "fetched"
    /\ download_queue' = download_queue \o
          [i \in 1..Len(hearings_to_download) |-> DownloadHearing(hearings_to_download[i])]
    /\ transcription_queue' = transcription_queue \o
          [i \in 1..Len(hearings_to_transcribe) |-> TranscribeHearing(hearings_to_transcribe[i])]
    /\ d_unfinished' = d_unfinished + Len(hearings_to_download)
    /\ t_unfinished' = t_unfinished + Len(hearings_to_transcribe)
    /\ orphans' = orphans \ Range(hearings_to_transcribe)
    /\ puts' = [d |-> [j \in Jobs |-> puts.d[j] + Count(hearings_to_download, j)],
                t |-> [j \in Jobs |-> puts.t[j] + Count(hearings_to_transcribe, j)]]
    /\ main_pc' = "join_d"
    /\ UNCHANGED <<db, fileVars, config, toolVars, run, cleanupVars, fetchVars, dw, tw,
                   performance_stats, dlend, errPassed, exhausted>>

Sentinels(n) == [i \in 1..n |-> None]

\* "Shutdown workers": one None per worker on each queue, then gather.
Shutdown ==
    /\ download_queue' = download_queue \o Sentinels(max_downloads)
    /\ transcription_queue' = transcription_queue \o Sentinels(max_transcriptions)
    /\ d_unfinished' = d_unfinished + max_downloads
    /\ t_unfinished' = t_unfinished + max_transcriptions
    /\ main_pc' = "gather"

\* Queue.join() returns when no put() is left without its task_done().
JoinedAtOnce(unfinished) == TRUE
Joined(unfinished) == unfinished = 0

\* download_queue.join() returns; transcription_queue.join() returns at once
\* when nothing is unfinished, and suspends otherwise.
JoinDownloads ==
    /\ main_pc = "join_d"
    /\ Joined(d_unfinished)
    /\ IF Joined(t_unfinished)
       THEN Shutdown
       ELSE /\ main_pc' = "join_t"
            /\ UNCHANGED queueVars
    /\ UNCHANGED <<db, fileVars, config, toolVars, run, cleanupVars, fetchVars, dw, tw,
                   performance_stats, histVars>>

JoinTranscriptions ==
    /\ main_pc = "join_t"
    /\ Joined(t_unfinished)
    /\ Shutdown
    /\ UNCHANGED <<db, fileVars, config, toolVars, run, cleanupVars, fetchVars, dw, tw,
                   performance_stats, histVars>>

\* asyncio.gather of the workers returns; the summary is printed.
Gather ==
    /\ main_pc = "gather"
    /\ \A w \in DWorkers : dw[w].pc = "exited"
    /\ \A w \in TWorkers : tw[w].pc = "exited"
    /\ main_pc' = "returned"
    /\ UNCHANGED <<db, fileVars, config, toolVars, run, cleanupVars, fetchVars, queueVars,
                   dw, tw, performance_stats, histVars>>

\* -------------------------------------------------------- download_worker
SetD(w, rec) == dw' = [dw EXCEPT ![w] = rec]

\* download_video returned a path: the hearing goes on the transcription
\* queue and download_queue.task_done() is called.
Forward(w, h, how) ==
    /\ transcription_queue' = Append(transcription_queue, h)
    /\ t_unfinished' = t_unfinished + 1
    /\ d_unfinished' = d_unfinished - 1
    /\ orphans' = orphans \ {h.id}
    /\ puts' = [puts EXCEPT !.t[h.id] = @ + 1]
    /\ dlend' = [dlend EXCEPT ![h.id] = how]
    /\ SetD(w, IdleD)

\* download_queue.get() returns an item.  None ends the worker.  Otherwise
\* download_video(hearing) runs to its first await: a non-empty file at
\* video_path returns the path at once, else update_status('downloading')
\* is awaited.
DGet(w) ==
    /\ dw[w].pc = "get"
    /\ download_queue # <<>>
    /\ LET h == Head(download_queue) IN
        /\ download_queue' = Tail(download_queue)
        /\ IF h = None
           THEN /\ SetD(w, [IdleD EXCEPT !.pc = "exited"])
                /\ UNCHANGED <<transcription_queue, d_unfinished, t_unfinished, dlend, orphans, puts>>
           ELSE IF AlreadyDownloaded(h.id)
           THEN Forward(w, h, "shortcut")
           ELSE /\ SetD(w, [pc |-> "mark", hearing |-> h, retry_count |-> 0])
                /\ UNCHANGED <<transcription_queue, d_unfinished, t_unfinished, dlend, orphans, puts>>
    /\ UNCHANGED <<db, fileVars, config, toolVars, run, main_pc, cleanupVars, fetchVars, tw,
                   performance_stats, errPassed, exhausted>>

\* update_status(video_id, 'download_status', 'downloading'); the try block
\* is entered.
DMark(w) ==
    /\ dw[w].pc = "mark"
    /\ db' = _update_status_sync(db, dw[w].hearing.id, "download_status", "downloading", "none")
    /\ SetD(w, [dw[w] EXCEPT !.pc = "net"])
    /\ UNCHANGED <<fileVars, config, toolVars, run, main_pc, cleanupVars, fetchVars, queueVars,
                   tw, performance_stats, histVars>>

\* The file a failed transfer leaves at video_path: the file as it was (ffmpeg
\* writes to a .downloading file; the connection failed before open), an empty
\* file (opened 'wb', nothing written), or some of the bytes.
Leftovers(j) == {videos[j], "empty", "partial"}

\* "if retry_count < max_retries": the backoff sleep and the recursive call,
\* else update_status('failed').
AfterFailureOneShort(retry_count) ==
    IF retry_count < max_retries - 1 THEN "sleep" ELSE "markfail"
AfterFailure(retry_count) == IF retry_count < max_retries THEN "sleep" ELSE "markfail"

\* The try block of download_video: the transfer ends, or raises.
DNet(w) ==
    /\ dw[w].pc = "net"
    /\ LET j == dw[w].hearing.id IN
        \E ok \in BOOLEAN :
            IF ok
            THEN /\ videos' = [videos EXCEPT ![j] = "full"]
                 /\ SetD(w, [dw[w] EXCEPT !.pc = "complete"])
            ELSE /\ \E f \in Leftovers(j) : videos' = [videos EXCEPT ![j] = f]
                 /\ SetD(w, [dw[w] EXCEPT !.pc = AfterFailure(dw[w].retry_count)])
    /\ UNCHANGED <<db, audio, chunks, config, toolVars, run, main_pc, cleanupVars, fetchVars,
                   queueVars, tw, performance_stats, histVars>>

\* After the sleep: download_video(hearing, retry_count + 1) runs to its first
\* await, as in DGet.
DRetry(w) ==
    /\ dw[w].pc = "sleep"
    /\ LET h == dw[w].hearing IN
        IF AlreadyDownloaded(h.id)
        THEN Forward(w, h, "shortcut")
        ELSE /\ SetD(w, [dw[w] EXCEPT !.pc = "mark", !.retry_count = @ + 1])
             /\ UNCHANGED <<transcription_queue, d_unfinished, t_unfinished, dlend, orphans, puts>>
    /\ UNCHANGED <<db, fileVars, config, toolVars, run, main_pc, cleanupVars, fetchVars, tw,
                   download_queue, performance_stats, errPassed, exhausted>>

\* update_download_complete; the download counters; the path is returned.
DComplete(w) ==
    /\ dw[w].pc = "complete"
    /\ db' = _update_download_complete_sync(db, dw[w].hearing.id)
    /\ performance_stats' = [performance_stats EXCEPT !.d_successful = @ + 1]
    /\ Forward(w, dw[w].hearing,
               IF dw[w].retry_count = max_retries THEN "ok_last" ELSE "ok")
    /\ UNCHANGED <<fileVars, config, toolVars, run, main_pc, cleanupVars, fetchVars, tw,
                   download_queue, errPassed, exhausted>>

\* "Max retries reached": update_status('failed', str(e)); None is returned and
\* task_done() is called.
DMarkFail(w) ==
    /\ dw[w].pc = "markfail"
    /\ LET j == dw[w].hearing.id IN
        /\ db' = _update_status_sync(db, j, "download_status", "failed", "download_error")
        /\ errPassed' = [errPassed EXCEPT ![j] = "download_error"]
        /\ dlend' = [dlend EXCEPT ![j] = "failed"]
    /\ d_unfinished' = d_unfinished - 1
    /\ SetD(w, IdleD)
    /\ UNCHANGED <<fileVars, config, toolVars, run, main_pc, cleanupVars, fetchVars,
                   download_queue, transcription_queue, t_unfinished, tw,
                   performance_stats, exhausted, orphans, puts>>

\* --------------------------------------------------- transcription_worker
SetT(w, rec) == tw' = [tw EXCEPT ![w] = rec]
Goto(w, pc) == SetT(w, [tw[w] EXCEPT !.pc = pc])

\* transcription_queue.get() returns an item.  None ends the worker; otherwise
\* transcribe_video(hearing) is handed to the executor.
TGet(w) ==
    /\ tw[w].pc = "get"
    /\ transcription_queue # <<>>
    /\ LET h == Head(transcription_queue) IN
        /\ transcription_queue' = Tail(transcription_queue)
        /\ SetT(w, IF h = None THEN [IdleT EXCEPT !.pc = "exited"]
                   ELSE [IdleT EXCEPT !.pc = "exists", !.hearing = h,
                                      !.failed0 = performance_stats.t_failed])
    /\ UNCHANGED <<db, fileVars, config, toolVars, run, main_pc, cleanupVars, fetchVars,
                   download_queue, d_unfinished, t_unfinished, dw, performance_stats,
                   histVars>>

\* video_path of transcribe_video: Path(video_file_path), the bare file name
\* the store holds, resolved against the working directory, when the hearing
\* carries one; videos_dir/{id}.mp4 otherwise.
InVideosDir(h) == ~h.video_file_path
\* The working directory is not the videos directory and holds no {id}.mp4.
VideoExists(h) == InVideosDir(h) /\ videos[h.id] # "none"

\* A 'failed' write of transcription_status with its message.
MarkTranscriptionFailed(j, msg) ==
    /\ db' = _update_status_sync(db, j, "transcription_status", "failed", msg)
    /\ errPassed' = [errPassed EXCEPT ![j] = msg]

\* "if not video_path.exists()": 'failed' is written and the function returns.
TExists(w) ==
    /\ tw[w].pc = "exists"
    /\ IF VideoExists(tw[w].hearing)
       THEN /\ Goto(w, "probe")
            /\ UNCHANGED <<db, errPassed>>
       ELSE /\ MarkTranscriptionFailed(tw[w].hearing.id, "video_not_found")
            /\ Goto(w, "done")
    /\ UNCHANGED <<fileVars, config, toolVars, run, main_pc, cleanupVars, fetchVars, queueVars,
                   dw, performance_stats, dlend, exhausted, orphans, puts>>

\* What ffprobe can answer for the file within its 10 s.
ProbeOutcomes(h) ==
    IF VideoExists(h) /\ videos[h.id] # "empty"
    THEN {"ok", "corrupt", "timeout"}
    ELSE {"corrupt", "timeout"}

\* The log line after the unlink of a corrupt video names video_filename, which
\* transcribe_video never binds: NameError, not caught by
\* "except subprocess.TimeoutExpired".
AfterCorruptUnlink == "escaped"

\* "if self.delete_after and video_path.exists()", for a corrupt video
DeleteCorruptAlways(h) == VideoExists(h)
DeleteCorrupt(h) == delete_after /\ VideoExists(h)

\* "Verify video integrity".
TProbe(w) ==
    /\ tw[w].pc = "probe"
    /\ LET h == tw[w].hearing
           j == tw[w].hearing.id IN
        \E r \in ProbeOutcomes(h) :
            CASE r = "ok" ->
                    /\ Goto(w, "mark")
                    /\ UNCHANGED <<db, errPassed, videos>>
              [] r = "timeout" ->
                    /\ MarkTranscriptionFailed(j, "verification_timeout")
                    /\ Goto(w, "done")
                    /\ UNCHANGED videos
              [] r = "corrupt" ->
                    /\ MarkTranscriptionFailed(j, "video_corrupted")
                    /\ IF DeleteCorrupt(h)
                       THEN /\ videos' = [videos EXCEPT ![j] = "none"]
                            /\ Goto(w, AfterCorruptUnlink)
                       ELSE /\ UNCHANGED videos
                            /\ Goto(w, "done")
    /\ UNCHANGED <<audio, chunks, config, toolVars, run, main_pc, cleanupVars, fetchVars,
                   queueVars, dw, performance_stats, dlend, exhausted, orphans, puts>>

\* A step of the try block raises: the except block runs next.  `fault` is
\* "store" or "fs" when the call that raised was a store or file-system call
\* and its cause outlasts the step, "none" otherwise.
Raise(w, fault) ==
    SetT(w, [tw[w] EXCEPT !.pc = "except", !.fault = fault, !.raised = TRUE])

\* _update_status_sync(hearing_id, 'transcription_status', 'processing')
TMark(w) ==
    /\ tw[w].pc = "mark"
    /\ db' = _update_status_sync(db, tw[w].hearing.id, "transcription_status",
                                 "processing", "none")
    /\ Goto(w, "extract")
    /\ UNCHANGED <<fileVars, config, toolVars, run, main_pc, cleanupVars, fetchVars, queueVars,
                   dw, performance_stats, histVars>>

\* extract_audio and get_audio_duration: ffmpeg writes {id}_full.wav; a failed
\* ffmpeg or ffprobe raises, with or without the file written.
TExtract(w) ==
    /\ tw[w].pc = "extract"
    /\ LET j == tw[w].hearing.id IN
        \/ /\ audio' = audio \cup {j}
           /\ Goto(w, "split")
        \/ /\ \E wrote \in BOOLEAN : audio' = IF wrote THEN audio \cup {j} ELSE audio
           /\ Raise(w, "none")
    /\ UNCHANGED <<db, videos, chunks, config, toolVars, run, main_pc, cleanupVars, fetchVars,
                   queueVars, dw, performance_stats, histVars>>

\* split_audio_with_silence_detection: n chunk files 0..n-1 are cut; a failed
\* ffmpeg raises after k of them.
TSplit(w) ==
    /\ tw[w].pc = "split"
    /\ LET j == tw[w].hearing.id IN
        \E n \in 0..MaxChunks :
            /\ chunks' = [chunks EXCEPT ![j] = @ \cup 0..(n - 1)]
            /\ \/ SetT(w, [tw[w] EXCEPT !.pc = "pool", !.nchunks = n])
               \/ Raise(w, "none")
    /\ UNCHANGED <<db, videos, audio, config, toolVars, run, main_pc, cleanupVars, fetchVars,
                   queueVars, dw, performance_stats, histVars>>

\* chunk_workers = min(self.total_cores // 2, len(chunks)); Pool(processes=0)
\* raises ValueError.
ChunkWorkers(n) == Min(total_cores \div 2, n)

\* The pool transcribes the chunks: a chunk worker that succeeds unlinks its
\* file, one that raises leaves it; close() and join() wait for all of them,
\* then the first failure is re-raised.
TPool(w) ==
    /\ tw[w].pc = "pool"
    /\ LET j == tw[w].hearing.id
           n == tw[w].nchunks IN
        IF ChunkWorkers(n) < 1
        THEN /\ Raise(w, "none")
             /\ UNCHANGED chunks
        ELSE \E failed \in SUBSET (0..(n - 1)) :
                /\ chunks' = [chunks EXCEPT ![j] = @ \cap failed]
                /\ IF failed = {} THEN Goto(w, "write")
                   ELSE SetT(w, [tw[w] EXCEPT !.pc = "except", !.raised = TRUE,
                                              !.chunk_failed = TRUE])
    /\ UNCHANGED <<db, videos, audio, config, toolVars, run, main_pc, cleanupVars, fetchVars,
                   queueVars, dw, performance_stats, histVars>>

\* merge_chunks and the two transcript files.
TWrite(w) ==
    /\ tw[w].pc = "write"
    /\ \/ Goto(w, "persist")
       \/ Raise(w, "none")
    /\ UNCHANGED <<db, fileVars, config, toolVars, run, main_pc, cleanupVars, fetchVars,
                   queueVars, dw, performance_stats, histVars>>

\* _update_transcription_complete_sync and the transcription counters.
TPersist(w) ==
    /\ tw[w].pc = "persist"
    /\ db' = _update_transcription_complete_sync(db, tw[w].hearing.id)
    /\ performance_stats' = [performance_stats EXCEPT !.t_successful = @ + 1]
    /\ Goto(w, "cleanup")
    /\ UNCHANGED <<fileVars, config, toolVars, run, main_pc, cleanupVars, fetchVars, queueVars,
                   dw, histVars>>

\* "if self.delete_after and video_path.exists()", after the transcription
DeleteTranscribedAlways(h) == VideoExists(h)
DeleteTranscribed(h) == delete_after /\ VideoExists(h)

\* "Clean up": the audio file, the job's chunk files, then the video when
\* delete_after is set.
TCleanup(w) ==
    /\ tw[w].pc = "cleanup"
    /\ LET h == tw[w].hearing IN
        /\ audio' = audio \ {h.id}
        /\ chunks' = [chunks EXCEPT ![h.id] = {}]
        /\ videos' = IF DeleteTranscribed(h)
                     THEN [videos EXCEPT ![h.id] = "none"] ELSE videos
    /\ Goto(w, "done")
    /\ UNCHANGED <<db, config, toolVars, run, main_pc, cleanupVars, fetchVars, queueVars,
                   dw, performance_stats, histVars>>

\* The store call of a step raises (psycopg2.connect or the UPDATE fails).
TStoreRaises(w) ==
    /\ tw[w].pc \in {"mark", "persist"}
    /\ \E f \in {"none", "store"} : Raise(w, f)
    /\ UNCHANGED <<db, fileVars, config, toolVars, run, main_pc, cleanupVars, fetchVars,
                   queueVars, dw, performance_stats, histVars>>

\* An unlink of "Clean up" raises: that of the audio file (nothing is deleted
\* yet) or that of the video (the temporaries are gone).
TUnlinkRaises(w) ==
    /\ tw[w].pc = "cleanup"
    /\ LET h == tw[w].hearing IN
        \E at \in {"audio", "video"} :
            /\ at = "audio" => h.id \in audio
            /\ at = "video" => delete_after /\ VideoExists(h)
            /\ audio' = IF at = "video" THEN audio \ {h.id} ELSE audio
            /\ chunks' = IF at = "video" THEN [chunks EXCEPT ![h.id] = {}] ELSE chunks
    /\ \E f \in {"none", "fs"} : Raise(w, f)
    /\ UNCHANGED <<db, videos, config, toolVars, run, main_pc, cleanupVars, fetchVars,
                   queueVars, dw, performance_stats, histVars>>

\* The except block of transcribe_video: 'failed' is written with str(e), the
\* failure counter is incremented, the audio file and the job's chunk files
\* are unlinked.  None of it is guarded: a store that still fails, or an unlink
\* that still fails, raises out of transcribe_video.
TExcept(w) ==
    /\ tw[w].pc = "except"
    /\ LET j == tw[w].hearing.id IN
        IF tw[w].fault = "store"
        THEN /\ Goto(w, "escaped")
             /\ UNCHANGED <<db, errPassed, performance_stats, audio, chunks>>
        ELSE /\ MarkTranscriptionFailed(j, "exception")
             /\ performance_stats' = [performance_stats EXCEPT !.t_failed = @ + 1]
             /\ IF tw[w].fault = "fs" /\ (j \in audio \/ chunks[j] # {})
                THEN /\ Goto(w, "escaped")
                     /\ UNCHANGED <<audio, chunks>>
                ELSE /\ audio' = audio \ {j}
                     /\ chunks' = [chunks EXCEPT ![j] = {}]
                     /\ Goto(w, "done")
    /\ UNCHANGED <<videos, config, toolVars, run, main_pc, cleanupVars, fetchVars, queueVars,
                   dw, dlend, exhausted, orphans, puts>>

\* The store call of the except block raises after a step that was no store
\* call raised: the store became unreachable in between.  Nothing of the
\* block after it runs.
TExceptStoreRaises(w) ==
    /\ tw[w].pc = "except"
    /\ tw[w].fault = "none"
    /\ Goto(w, "escaped")
    /\ UNCHANGED <<db, fileVars, config, toolVars, run, main_pc, cleanupVars, fetchVars,
                   queueVars, dw, performance_stats, histVars>>

\* transcribe_video returned: transcription_queue.task_done().
TDone(w) ==
    /\ tw[w].pc = "done"
    /\ t_unfinished' = t_unfinished - 1
    /\ SetT(w, IdleT)
    /\ UNCHANGED <<db, fileVars, config, toolVars, run, main_pc, cleanupVars, fetchVars,
                   download_queue, transcription_queue, d_unfinished, dw,
                   performance_stats, histVars>>

\* transcribe_video raised: "except Exception" of the worker logs it and the
\* loop goes on; task_done() is not reached.
TEscaped(w) ==
    /\ tw[w].pc = "escaped"
    /\ SetT(w, IdleT)
    /\ UNCHANGED <<db, fileVars, config, toolVars, run, main_pc, cleanupVars, fetchVars,
                   queueVars, dw, performance_stats, histVars>>

\* ------------------------------------------------------------ process life
\* Jobs whose download was marked 'failed' in the run that ends.
NewlyExhausted == {j \in Jobs : dlend[j] = "failed"}

\* The process is killed during a run; the store and the files stay as they
\* are, and the next process starts.
Crash ==
    /\ main_pc \notin {"idle", "returned"}
    /\ run < MaxRuns
    /\ run' = run + 1
    /\ exhausted' = exhausted \cup NewlyExhausted
    /\ Construct
    /\ UNCHANGED <<db, fileVars, config, toolVars>>

\* process_hearings returned.  main() then removes tmp/ (cleanup_tmp_folder);
\* lambda_handler does not.  The next process starts.
NextRun ==
    /\ main_pc = "returned"
    /\ run < MaxRuns
    /\ run' = run + 1
    /\ exhausted' = exhausted \cup NewlyExhausted
    /\ \E rmtree \in BOOLEAN :
        IF rmtree
        THEN /\ videos' = [j \in Jobs |-> "none"]
             /\ audio' = {}
             /\ chunks' = [j \in Jobs |-> {}]
        ELSE UNCHANGED fileVars
    /\ Construct
    /\ UNCHANGED <<db, config, toolVars>>

RunNext ==
    \/ cleanup_orphaned_files
    \/ Fetch
    \/ Enqueue
    \/ JoinDownloads
    \/ JoinTranscriptions
    \/ Gather
    \/ \E w \in DWorkers : DGet(w)
    \/ \E w \in DWorkers : DMark(w)
    \/ \E w \in DWorkers : DNet(w)
    \/ \E w \in DWorkers : DRetry(w)
    \/ \E w \in DWorkers : DComplete(w)
    \/ \E w \in DWorkers : DMarkFail(w)
    \/ \E w \in TWorkers : TGet(w)
    \/ \E w \in TWorkers : TExists(w)
    \/ \E w \in TWorkers : TProbe(w)
    \/ \E w \in TWorkers : TMark(w)
    \/ \E w \in TWorkers : TExtract(w)
    \/ \E w \in TWorkers : TSplit(w)
    \/ \E w \in TWorkers : TPool(w)
    \/ \E w \in TWorkers : TWrite(w)
    \/ \E w \in TWorkers : TPersist(w)
    \/ \E w \in TWorkers : TCleanup(w)
    \/ \E w \in TWorkers : TExcept(w)
    \/ \E w \in TWorkers : TDone(w)
    \/ \E w \in TWorkers : TEscaped(w)

\* The pipeline over several process starts; every store and file-system call
\* of transcribe_video succeeds.
Next ==
    \/ RunNext
    \/ Crash
    \/ NextRun

Spec == Init /\ [][Next]_vars

\* One run in which the store and file-system calls of transcribe_video may
\* raise as well.
FaultNext ==
    \/ RunNext
    \/ \E w \in TWorkers : TStoreRaises(w)
    \/ \E w \in TWorkers : TUnlinkRaises(w)
    \/ \E w \in TWorkers : TExceptStoreRaises(w)

FaultSpec == Init /\ [][FaultNext]_vars

\* One run on a new store.
RunSpec == Init /\ [][RunNext]_vars

\* A row whose download an earlier run completed and whose transcription
\* is still to do; main() has removed tmp/ since.
DownloadedRow ==
    [NewRow EXCEPT !.download_status = "completed", !.video_file_path = TRUE]

\* One run with two workers in each pool, on rows new or downloaded.
PoolInit == InitWith([1..NJobs -> {NewRow, DownloadedRow}], 2, 2) /\ ToolsIdle /\ ExtrasIdle

PoolSpec == PoolInit /\ [][RunNext]_vars

\* Rows as earlier runs leave them before any file is written: new, left
\* 'downloading' by a killed process, or 'failed' after the retries.
StartupRows ==
    {[NewRow EXCEPT !.download_status = st] : st \in {"pending", "downloading", "failed"}}

\* One run on a store with more rows than the first SELECT's LIMIT.
WideInit == InitWith([1..(NJobs + 1) -> StartupRows], 1, 1) /\ ToolsIdle /\ ExtrasIdle

WideSpec == WideInit /\ [][RunNext]_vars

\* ------------------------------------ split_audio_with_silence_detection
Abs(x) == IF x < 0 THEN 0 - x ELSE x

\* "'end' in silence and current_start < silence['end'] <= target_end + 5"
InWindowNoSlack(silence, cs, target_end) ==
    /\ "end" \in DOMAIN silence
    /\ cs < silence.end
    /\ silence.end <= target_end
InWindowAnyEnd(silence, cs, target_end) ==
    /\ "end" \in DOMAIN silence
    /\ silence.end <= target_end + LookaheadTicks
InWindow(silence, cs, target_end) ==
    /\ "end" \in DOMAIN silence
    /\ cs < silence.end
    /\ silence.end <= target_end + LookaheadTicks

\* The for loop over silence_periods: best_split and min_distance after the
\* periods left; min_distance is <<>> for float('inf'), else <<distance>>.
RECURSIVE NearestSilence(_, _, _, _, _)
NearestSilence(periods, cs, target_end, best_split, min_distance) ==
    IF periods = <<>> THEN best_split
    ELSE LET silence == Head(periods)
             distance == Abs(silence.end - target_end)
         IN IF /\ InWindow(silence, cs, target_end)
               /\ (min_distance = <<>> \/ distance < min_distance[1])
            THEN NearestSilence(Tail(periods), cs, target_end, silence.end, <<distance>>)
            ELSE NearestSilence(Tail(periods), cs, target_end, best_split, min_distance)

\* "target_end = min(current_start + self.chunk_duration, duration)"
TargetEnd == Min(current_start + chunk_duration, duration)

\* best_split once the for loop is over.
BestSplit == NearestSilence(silence_periods, current_start, TargetEnd, TargetEnd, <<>>)

\* "if chunk_duration > 0.5:  # Skip very short chunks"
LongEnoughOrEqual(d) == d >= MinChunkTicks
LongEnough(d) == d > MinChunkTicks

\* chunk_num after a pass that cut no file: "chunk_num += 1" is inside the if.
AfterSkipCounted(n) == n + 1
AfterSkip(n) == n

\* One pass of "while current_start < duration".
PlanStep ==
    /\ current_start < duration
    /\ LET d == BestSplit - current_start
       IN IF LongEnough(d)
          THEN /\ split_chunks' = Append(split_chunks,
                      [start |-> current_start, duration |-> d, index |-> chunk_num])
               /\ chunk_num' = chunk_num + 1
          ELSE /\ split_chunks' = split_chunks
               /\ chunk_num' = AfterSkip(chunk_num)
    /\ current_start' = BestSplit
    /\ UNCHANGED <<db, fileVars, config, run, main_pc, cleanupVars, fetchVars, queueVars,
                   dw, tw, performance_stats, histVars, duration, chunk_duration,
                   silence_periods, mergeVars, extraVars>>

\* The silence periods the parser can build: a start with the end that
\* followed it, or a start alone when no silence_end line followed.
SilencePeriods(D) ==
    {[start |-> e - 1, end |-> e] : e \in 1..D} \cup {[start |-> D - 1]}

SilenceLists(D) ==
    UNION {[1..n -> SilencePeriods(D)] : n \in 0..MaxSilences}

\* The recordings the planner is run on: every small one, and 90 s cut at
\* 30 s with one silence ending at 31 s.
PlanInputs ==
    {<<D, L, sp>> : D \in 0..MaxDuration, L \in 1..MaxChunkLen, sp \in SilenceLists(MaxDuration)}
        \cup {<<180, 60, <<[start |-> 60, end |-> 62]>> >>}

\* The entry of split_audio_with_silence_detection, before the while loop.
PlanInit ==
    /\ delete_after = TRUE
    /\ id_is_str = TRUE
    /\ InitWith({NewStore(1)}, 1, 1)
    /\ \E inp \in PlanInputs :
          /\ duration = inp[1]
          /\ chunk_duration = inp[2]
          /\ silence_periods = inp[3]
    /\ current_start = 0
    /\ chunk_num = 0
    /\ split_chunks = <<>>
    /\ chunk_results = <<>>
    /\ merged = <<>>
    /\ passed_in = <<>>
    /\ ExtrasIdle

PlanSpec == PlanInit /\ [][PlanStep]_vars

\* The loop is sequential code: a pass that can run does run.
PlanLiveSpec == PlanInit /\ [][PlanStep]_vars /\ WF_vars(PlanStep)

\* ----------------------------------------------------------- merge_chunks
\* A text is the sequence of its characters.
Whitespace == {" ", "\n"}

\* sep.join(parts)
RECURSIVE Join(_, _)
Join(parts, sep) ==
    IF parts = <<>> THEN <<>>
    ELSE IF Len(parts) = 1 THEN parts[1]
    ELSE parts[1] \o sep \o Join(Tail(parts), sep)

\* str.strip()
RECURSIVE Strip(_)
Strip(text) ==
    IF text = <<>> THEN <<>>
    ELSE IF text[1] \in Whitespace THEN Strip(Tail(text))
    ELSE IF text[Len(text)] \in Whitespace THEN Strip(SubSeq(text, 1, Len(text) - 1))
    ELSE text

\* list.sort(key=...): stable, ascending.  An element goes behind every
\* element already placed whose key is not greater.
\* The list is given as <<key, element>> pairs.
RECURSIVE InsertByKey(_, _)
InsertByKey(sorted, x) ==
    IF sorted = <<>> THEN <<x>>
    ELSE IF x[1] < sorted[1][1] THEN <<x>> \o sorted
    ELSE <<sorted[1]>> \o InsertByKey(Tail(sorted), x)

RECURSIVE StableSort(_)
StableSort(pairs) ==
    IF pairs = <<>> THEN <<>>
    ELSE InsertByKey(StableSort(SubSeq(pairs, 1, Len(pairs) - 1)), pairs[Len(pairs)])

\* The elements of a list of <<key, element>> pairs.
Elements(pairs) == [i \in 1..Len(pairs) |-> pairs[i][2]]

\* "chunk_results.sort(key=lambda x: x['chunk_index'])"
AsPassedIn(list) == list
SortByChunkIndex(list) ==
    Elements(StableSort([i \in 1..Len(list) |-> <<list[i].chunk_index, list[i]>>]))

\* "all_segments.sort(key=lambda x: x['start'])"
AsExtended(list) == list
SortByStart(list) ==
    Elements(StableSort([i \in 1..Len(list) |-> <<list[i].start, list[i]>>]))

\* "[chunk['text'] for chunk in chunk_results if chunk['text']]"
RECURSIVE NonEmptyTexts(_)
NonEmptyTexts(list) ==
    IF list = <<>> THEN <<>>
    ELSE (IF list[1].text # <<>> THEN <<list[1].text>> ELSE <<>>) \o NonEmptyTexts(Tail(list))

\* "for chunk in chunk_results: all_segments.extend(chunk.get('segments', []))"
RECURSIVE ExtendAll(_)
ExtendAll(list) ==
    IF list = <<>> THEN <<>> ELSE list[1].segments \o ExtendAll(Tail(list))

merge_chunks(list) ==
    LET sorted == SortByChunkIndex(list)
        full_text == Join(NonEmptyTexts(sorted), <<"\n", "\n">>)
    IN [text |-> Strip(full_text), segments |-> SortByStart(ExtendAll(sorted))]

\* The call of merge_chunks; the argument list is sorted in place.
Merge ==
    /\ merged = <<>>
    /\ merged' = <<merge_chunks(chunk_results)>>
    /\ chunk_results' = SortByChunkIndex(chunk_results)
    /\ UNCHANGED passed_in
    /\ UNCHANGED <<db, fileVars, config, run, main_pc, cleanupVars, fetchVars, queueVars,
                   dw, tw, performance_stats, histVars, planVars, extraVars>>

\* The segments transcribe_chunk_worker keeps: stripped, non-empty text.
Segments ==
    [start : 0..MaxStart, end : {MaxStart + 1}, text : {<<"a">>, <<"b">>}]

SegmentLists == UNION {[1..n -> Segments] : n \in 0..MaxSegments}

RECURSIVE SegmentTexts(_)
SegmentTexts(segs) ==
    IF segs = <<>> THEN <<>> ELSE <<segs[1].text>> \o SegmentTexts(Tail(segs))

\* What transcribe_chunk_worker returns for chunk i with the segments segs.
ChunkResult(i, segs) ==
    [text |-> Join(SegmentTexts(segs), <<"\n">>), segments |-> segs, chunk_index |-> i]

\* The lists of n results with the chunk indices 0..n-1, in every order.
ResultLists(n) ==
    {[k \in 1..n |-> ChunkResult(order[k], segs[k])] :
        order \in {f \in [1..n -> 0..(n - 1)] : \A a, b \in 1..n : f[a] = f[b] => a = b},
        segs \in [1..n -> SegmentLists]}

\* The entry of merge_chunks.
MergeInit ==
    /\ delete_after = TRUE
    /\ id_is_str = TRUE
    /\ InitWith({NewStore(1)}, 1, 1)
    /\ duration = 0
    /\ chunk_duration = 1
    /\ silence_periods = <<>>
    /\ current_start = 0
    /\ chunk_num = 0
    /\ split_chunks = <<>>
    /\ chunk_results \in UNION {ResultLists(n) : n \in 0..MaxResults}
    /\ merged = <<>>
    /\ passed_in = chunk_results
    /\ ExtrasIdle

MergeSpec == MergeInit /\ [][Merge]_vars

\* ------------------------------------------------ transcribe_chunk_worker
\* "segment.start + chunk_info['start']"
NotRebased(t, chunk_info) == t
Rebased(t, chunk_info) == t + chunk_info.start

\* The for loop over the model's segments: timestamps moved by the chunk's
\* offset, text stripped, segments with empty text left out.
RECURSIVE AdjustedSegments(_, _)
AdjustedSegments(segments, chunk_info) ==
    IF segments = <<>> THEN <<>>
    ELSE LET segment == Head(segments)
             adjusted_segment == [start |-> Rebased(segment.start, chunk_info),
                                  end |-> Rebased(segment.end, chunk_info),
                                  text |-> Strip(segment.text)]
         IN (IF adjusted_segment.text # <<>> THEN <<adjusted_segment>> ELSE <<>>)
                \o AdjustedSegments(Tail(segments), chunk_info)

transcribe_chunk_worker(chunk_info, segments) ==
    LET segment_list == AdjustedSegments(segments, chunk_info)
    IN [text |-> Join(SegmentTexts(segment_list), <<"\n">>),
        segments |-> segment_list,
        chunk_index |-> chunk_info.index]

\* The duration of the chunks of the plans below: the shortest the planner
\* emits.
ChunkTicks == MinChunkTicks + 1

\* Plans as the planner returns them: indices 0..n-1, the first chunk at 0,
\* each next chunk at the end of the one before it or one skipped span later.
ChunkPlans ==
    UNION {{p \in [1..n -> [start : 0..(MaxChunks * (ChunkTicks + MinChunkTicks)),
                            duration : {ChunkTicks},
                            index : 0..(n - 1)]] :
               /\ p[1].start = 0
               /\ \A k \in 1..n : p[k].index = k - 1
               /\ \A k \in 1..(n - 1) :
                     p[k + 1].start - (p[k].start + p[k].duration) \in {0, MinChunkTicks}}
           : n \in 1..MaxChunks}

\* What model.transcribe() can yield for one chunk: chunk-local times, up
\* to one tick after the end of the chunk, text with or without words.
ModelSegments ==
    {[start |-> t, end |-> t + 1, text |-> x] :
        t \in 0..(ChunkTicks + 1), x \in {<<"a">>, <<" ">>}}

ModelSegmentLists == UNION {[1..n -> ModelSegments] : n \in 0..MaxSegments}

\* "list(pool.imap(transcribe_chunk_worker, worker_args))": the results
\* arrive in the order of the plan.
PoolImap ==
    /\ Len(chunk_results) < Len(split_chunks)
    /\ LET k == Len(chunk_results) + 1
           result == transcribe_chunk_worker(split_chunks[k], model_segments[k])
       IN /\ chunk_results' = Append(chunk_results, result)
          /\ passed_in' = Append(passed_in, result)
    /\ UNCHANGED <<db, fileVars, config, run, main_pc, cleanupVars, fetchVars, queueVars,
                   dw, tw, performance_stats, histVars, planVars, merged, extraVars>>

\* "merged_result = self.merge_chunks(chunk_results)", after the pool.
MergeResults ==
    /\ Len(chunk_results) = Len(split_chunks)
    /\ Merge

\* transcribe_video between the planner and the merge.
WorkerInit ==
    /\ delete_after = TRUE
    /\ id_is_str = TRUE
    /\ InitWith({NewStore(1)}, 1, 1)
    /\ duration = 0
    /\ chunk_duration = 1
    /\ silence_periods = <<>>
    /\ current_start = 0
    /\ split_chunks \in ChunkPlans
    /\ chunk_num = Len(split_chunks)
    /\ chunk_results = <<>>
    /\ merged = <<>>
    /\ passed_in = <<>>
    /\ model_segments \in [1..Len(split_chunks) -> ModelSegmentLists]
    /\ increments = <<>>
    /\ executed = 0

WorkerNext == PoolImap \/ MergeResults

WorkerSpec == WorkerInit /\ [][WorkerNext]_vars

\* ------------------------------------------- the transcription counters
\* "self.performance_stats['transcriptions'][key] += 1" runs in the executor
\* thread of transcribe_video, with no lock: the value is read, then one
\* more is stored, and another thread may run in between.
CounterKeys == {"t_successful", "t_failed"}

\* No more "+= 1" statements are begun than MaxIncrements.
Begun == executed + Cardinality({w \in TWorkers : increments[w].pc = "store"})

\* The read of the counter: line 777 after a persisted transcript, line 803
\* in the except block.
LoadCounter(w) ==
    /\ increments[w].pc = "load"
    /\ Begun < MaxIncrements
    /\ \E key \in CounterKeys :
          increments' = [increments EXCEPT ![w] =
                            [pc |-> "store", key |-> key, reg |-> performance_stats[key]]]
    /\ UNCHANGED <<db, fileVars, config, run, main_pc, cleanupVars, fetchVars, queueVars,
                   dw, tw, performance_stats, histVars, planVars, mergeVars,
                   model_segments, executed>>

\* What the "+= 1" stores.
Stored(w) == increments[w].reg + 1

\* The store that ends the statement.
StoreCounter(w) ==
    /\ increments[w].pc = "store"
    /\ performance_stats' = [performance_stats EXCEPT ![increments[w].key] = Stored(w)]
    /\ increments' = [increments EXCEPT ![w] = [pc |-> "load", key |-> "none", reg |-> 0]]
    /\ executed' = executed + 1
    /\ UNCHANGED <<db, fileVars, config, run, main_pc, cleanupVars, fetchVars, queueVars,
                   dw, tw, histVars, planVars, mergeVars, model_segments>>

\* Two transcription workers, each running transcribe_video in a thread of
\* the default executor.
CounterInit ==
    /\ delete_after = TRUE
    /\ id_is_str = TRUE
    /\ InitWith({NewStore(NJobs)}, 1, 2)
    /\ ToolsIdle
    /\ model_segments = <<>>
    /\ increments = [w \in TWorkers |-> [pc |-> "load", key |-> "none", reg |-> 0]]
    /\ executed = 0

CounterNext == \E w \in TWorkers : LoadCounter(w) \/ StoreCounter(w)

CounterSpec == CounterInit /\ [][CounterNext]_vars

\* ---------------------------------------------------------------- claims
\* Hearings waiting on the transcription queue or inside transcribe_video.
InTranscription ==
    ({transcription_queue[i].id : i \in 1..Len(transcription_queue)} \ {None.id})
        \cup {tw[w].hearing.id : w \in {v \in TWorkers : tw[v].pc \notin {"get", "exited"}}}

\* C1: every job that is on the transcription queue or being transcribed has
\* download_status = 'completed' in the store.
C1_DownloadCompletedFirst ==
    \A j \in InTranscription : db[j].download_status = "completed"

\* No worker can take a step and the queue join that process_hearings awaits
\* cannot return.
Blocked ==
    /\ \/ main_pc = "join_d" /\ d_unfinished # 0
       \/ main_pc = "join_t" /\ t_unfinished # 0
    /\ download_queue = <<>>
    /\ transcription_queue = <<>>
    /\ \A w \in DWorkers : dw[w].pc = "get"
    /\ \A w \in TWorkers : tw[w].pc = "get"

\* C2: whatever the outcome of each job's phases, process_hearings is never
\* left waiting on a queue join that no worker will ever complete.
C2_NeverBlocked == ~Blocked

\* C3: a download whose try block succeeds after at most 3 failed attempts is
\* recorded 'completed'; 'failed' is about to be written only after a 4th
\* failure (retry_count 3).
C3_RetryThenCompleted ==
    /\ \A j \in Jobs : dlend[j] \in {"ok", "ok_last"} => db[j].download_status = "completed"
    /\ \A w \in DWorkers : dw[w].pc = "markfail" => dw[w].retry_count >= 3

\* A download succeeded on its 4th attempt and the store says 'completed'.
C3_Witness ==
    \E j \in Jobs : dlend[j] = "ok_last" /\ db[j].download_status = "completed"

\* C4: no 5th attempt is made, and a download that failed 4 times is recorded
\* with download_status = 'failed' and retry_count = 3.
C4_ExhaustedRecorded ==
    /\ \A w \in DWorkers : dw[w].retry_count <= 3
    /\ \A j \in Jobs : dlend[j] = "failed" =>
          db[j].download_status = "failed" /\ db[j].retry_count = 3

\* C5: a job marked 'failed' after its retries in an earlier run is not
\* selected for download by a later run.
C5_FailedIsTerminal ==
    \A j \in exhausted : j \notin Range(hearings_to_download)

\* C6: after a 'failed' write the job's row holds the message passed with it.
C6_ErrorStored ==
    \A j \in Jobs : errPassed[j] # "none" => db[j].error_message = errPassed[j]

\* C7: when transcribe_video finishes after a step of its try block raised,
\* it returned normally, transcription_status is 'failed', the failure counter
\* grew by one and neither the audio file nor a chunk file of the job is left.
C7_FailureBoundary ==
    \A w \in TWorkers :
        (tw[w].raised /\ tw[w].pc \in {"done", "escaped"}) =>
            /\ tw[w].pc = "done"
            /\ db[tw[w].hearing.id].transcription_status = "failed"
            /\ performance_stats.t_failed = tw[w].failed0 + 1
            /\ tw[w].hearing.id \notin audio
            /\ chunks[tw[w].hearing.id] = {}

\* C8: a row found 'processing' when a run starts has been put on the
\* transcription queue by the time that run returns.
C8_ProcessingRecovered == main_pc = "returned" => orphans = {}

\* C9: every row left 'downloading' and stale is among the rows the run
\* selects for download.
C9_StaleAlwaysSelected ==
    main_pc \notin {"idle", "cleaned"} => stale \subseteq Range(hearings_to_download)

\* A selected job is on the download queue, held by a download worker, or done.
HandledForDownload(j) ==
    \/ \E i \in 1..Len(download_queue) : download_queue[i].id = j
    \/ \E w \in DWorkers : dw[w].hearing.id = j
    \/ dlend[j] # "none"

\* C9 (amended): a stale 'downloading' row is selected when fewer than
\* 2 * max_downloads selectable rows were created before it, and every
\* selected row is put on the download queue.
C9_StaleSelectedWithinLimit ==
    /\ main_pc = "fetched" =>
          \A j \in stale :
              Cardinality({i \in Jobs : i < j /\ PendingDownload(i, stale)}) < 2 * max_downloads
                  => j \in Range(hearings_to_download)
    /\ main_pc \in {"join_d", "join_t", "gather", "returned"} =>
          \A j \in Range(hearings_to_download) : HandledForDownload(j)

\* A stale row was selected behind another selectable row.
C9_Witness ==
    /\ main_pc = "join_d"
    /\ \E j \in stale : j > 1 /\ j \in Range(hearings_to_download)
                        /\ Len(hearings_to_download) = 2 * max_downloads

\* C10: the step from process start to the end of cleanup_orphaned_files
\* removes {id}.mp4 of every row with transcription 'completed' and leaves
\* every other video file as it was.
C10_CleanupCompletedOnly ==
    [][(main_pc = "idle" /\ main_pc' = "cleaned") =>
          \A j \in Jobs :
              videos'[j] = IF db[j].transcription_status = "completed"
                           THEN "none" ELSE videos[j]]_vars

\* The while loop of the planner is over.
Planned == current_start >= duration

\* C11: with no silence periods the planned chunks start at 0, follow one
\* another without gap or overlap, end at the duration, and none is longer
\* than chunk_duration.
C11_ChunksPartition ==
    (Planned /\ duration > 0 /\ silence_periods = <<>>) =>
        /\ split_chunks # <<>>
        /\ split_chunks[1].start = 0
        /\ \A i \in 1..(Len(split_chunks) - 1) :
              split_chunks[i + 1].start = split_chunks[i].start + split_chunks[i].duration
        /\ LET last == split_chunks[Len(split_chunks)]
           IN last.start + last.duration = duration
        /\ \A i \in 1..Len(split_chunks) : split_chunks[i].duration <= chunk_duration

\* The ends of terminated silences in (s, t + 5 s].
SilenceEndsNear(s, t) ==
    {silence_periods[i].end :
        i \in {k \in 1..Len(silence_periods) :
                 /\ "end" \in DOMAIN silence_periods[k]
                 /\ s < silence_periods[k].end
                 /\ silence_periods[k].end <= t + 10}}

\* C12: a planner step from s with target t = min(s + L, D) moves to a
\* silence end in (s, t + 5 s] that no other such end is closer to t than,
\* or to t itself when there is none; 90 s cut at 30 s with one silence
\* ending at 31 s gives the spans [0,31), [31,61), [61,90).
C12_SplitAtNearestSilence ==
    [][/\ current_start' # current_start =>
             LET t == Min(current_start + chunk_duration, duration)
                 near == SilenceEndsNear(current_start, t)
             IN IF near = {}
                THEN current_start' = t
                ELSE /\ current_start' \in near
                     /\ \A e \in near : Abs(current_start' - t) <= Abs(e - t)
       /\ (Planned' /\ duration = 180 /\ chunk_duration = 60
              /\ silence_periods = <<[start |-> 60, end |-> 62]>>) =>
             split_chunks' = <<[start |-> 0, duration |-> 62, index |-> 0],
                               [start |-> 62, duration |-> 60, index |-> 1],
                               [start |-> 122, duration |-> 58, index |-> 2]>>
      ]_vars

\* The 90 s recording has been planned, its first cut at the silence end.
C12_Witness ==
    /\ Planned
    /\ duration = 180
    /\ Len(split_chunks) = 3
    /\ split_chunks[2].start = 62

\* The chunk result with the chunk index i.
ResultOf(i) == CHOOSE c \in Range(passed_in) : c.chunk_index = i

\* The non-empty texts of the chunks i..n-1, each behind a paragraph
\* separator except the first.
RECURSIVE TextFrom(_, _, _)
TextFrom(i, n, first) ==
    IF i >= n THEN <<>>
    ELSE IF ResultOf(i).text = <<>> THEN TextFrom(i + 1, n, first)
    ELSE (IF first THEN <<>> ELSE <<"\n", "\n">>) \o ResultOf(i).text
             \o TextFrom(i + 1, n, FALSE)

\* C13: the text merge_chunks returns is the non-empty chunk texts in
\* ascending chunk-index order with a paragraph separator between them,
\* whatever the order of the list passed in.
C13_TextInIndexOrder ==
    merged # <<>> => merged[1].text = TextFrom(0, Len(passed_in), TRUE)

\* A list passed in descending index order was merged into a text of two
\* different paragraphs.
C13_Witness ==
    /\ merged # <<>>
    /\ Len(passed_in) = 2
    /\ passed_in[1].chunk_index > passed_in[2].chunk_index
    /\ merged[1].text = <<"a", "\n", "\n", "b">>

\* How often x occurs among the segments of all chunk results.
RECURSIVE CountInChunks(_, _)
CountInChunks(k, x) ==
    IF k = 0 THEN 0
    ELSE Count(passed_in[k].segments, x) + CountInChunks(k - 1, x)

\* C14: the segments merge_chunks returns are non-decreasing by start time,
\* and every segment occurs among them as often as in the chunk results.
C14_SegmentsSortedAndKept ==
    merged # <<>> =>
        LET segs == merged[1].segments
        IN /\ \A i \in 1..(Len(segs) - 1) : segs[i].start <= segs[i + 1].start
           /\ \A x \in Segments : Count(segs, x) = CountInChunks(Len(passed_in), x)

\* Segments of different start times, one of them given twice, were merged.
C14_Witness ==
    /\ merged # <<>>
    /\ Len(passed_in) = 2
    /\ passed_in[1].chunk_index > passed_in[2].chunk_index
    /\ \E x \in Segments : Count(merged[1].segments, x) = 2
    /\ \E i, j \in 1..Len(merged[1].segments) :
          merged[1].segments[i].start < merged[1].segments[j].start

\* How many queue entries and workers hold the job j.
Holders(j) ==
    Cardinality({i \in 1..Len(download_queue) : download_queue[i].id = j})
    + Cardinality({i \in 1..Len(transcription_queue) : transcription_queue[i].id = j})
    + Cardinality({w \in DWorkers : dw[w].hearing.id = j})
    + Cardinality({w \in TWorkers : tw[w].hearing.id = j})

\* C15: in a run a job is put on the download queue at most once and on the
\* transcription queue at most once, and at no time do two queue entries or
\* workers hold it.
C15_OneHolderPerJob ==
    \A j \in Jobs : Holders(j) <= 1 /\ puts.d[j] <= 1 /\ puts.t[j] <= 1

\* A download worker is busy while a transcription worker holds another
\* job, one that went through both queues.
C15_Witness ==
    \E v \in DWorkers, w \in TWorkers :
        /\ dw[v].hearing.id \in Jobs
        /\ tw[w].hearing.id \in Jobs
        /\ puts.d[tw[w].hearing.id] = 1
        /\ puts.t[tw[w].hearing.id] = 1

\* The jobs inside download_video, and those handed to transcribe_video.
BeingDownloaded == {dw[w].hearing.id : w \in DOMAIN dw} \ {None.id}
BeingTranscribed == {tw[w].hearing.id : w \in DOMAIN tw} \ {None.id}

\* C16: at most max_downloads jobs are being downloaded and at most
\* max_transcriptions jobs are being transcribed, whatever waits in the queues.
C16_PoolSizesBound ==
    /\ Cardinality(BeingDownloaded) <= max_downloads
    /\ Cardinality(BeingTranscribed) <= max_transcriptions

\* The download pool is full while another job waits in the download queue.
C16_Witness ==
    /\ Cardinality(BeingDownloaded) = max_downloads
    /\ \E i \in 1..Len(download_queue) : download_queue[i] # None

\* The jobs waiting in a queue, and whether its stop markers were put: one
\* is still in the queue or a worker of the pool has consumed one.
Waiting(queue) == {queue[i].id : i \in 1..Len(queue)} \ {None.id}
DownloadStopped ==
    (\E i \in 1..Len(download_queue) : download_queue[i] = None)
        \/ \E w \in DWorkers : dw[w].pc = "exited"
TranscriptionStopped ==
    (\E i \in 1..Len(transcription_queue) : transcription_queue[i] = None)
        \/ \E w \in TWorkers : tw[w].pc = "exited"

\* Once a queue has its stop markers no job waits in it or is held by a
\* worker of its pool, and there are as many markers left as workers running.
DrainedBeforeStop ==
    /\ DownloadStopped =>
          /\ Waiting(download_queue) = {}
          /\ BeingDownloaded = {}
          /\ Len(download_queue) = Cardinality({w \in DWorkers : dw[w].pc # "exited"})
    /\ TranscriptionStopped =>
          /\ Waiting(transcription_queue) = {}
          /\ BeingTranscribed = {}
          /\ Len(transcription_queue) = Cardinality({w \in TWorkers : tw[w].pc # "exited"})

\* C17: stop markers are put on a queue only when every job put on it has
\* been processed, no job is put on the transcription queue after its stop
\* markers, and a worker exits by taking one stop marker off its queue.
C17_StopAfterDrain ==
    [][/\ DrainedBeforeStop'
       /\ TranscriptionStopped => puts'.t = puts.t
       /\ \A w \in DWorkers :
             (dw[w].pc # "exited" /\ dw'[w].pc = "exited") =>
                 /\ Head(download_queue) = None
                 /\ download_queue' = Tail(download_queue)
       /\ \A w \in TWorkers :
             (tw[w].pc # "exited" /\ tw'[w].pc = "exited") =>
                 /\ Head(transcription_queue) = None
                 /\ transcription_queue' = Tail(transcription_queue)
      ]_vars

\* The run returned after jobs went through both queues; every worker has
\* exited and no stop marker is left.
C17_Witness ==
    /\ main_pc = "returned"
    /\ \A j \in Jobs : puts.t[j] = 1
    /\ \E j \in Jobs : puts.d[j] = 1
    /\ download_queue = <<>>
    /\ transcription_queue = <<>>

\* C18: when transcribe_video finishes, by returning or by raising, every
\* chunk file cut for its job has been deleted, by the chunk worker that
\* transcribed it or by the scheduler's cleanup.
C18_ChunksDeleted ==
    \A w \in TWorkers :
        tw[w].pc \in {"done", "escaped"} => chunks[tw[w].hearing.id] = {}

\* The integrity probe of worker w reports a corrupt video in this step.
ProbeReportsCorrupt(w) ==
    /\ tw[w].pc = "probe"
    /\ errPassed'[tw[w].hearing.id] = "video_corrupted"

\* C19: the step in which the probe reports a corrupt video writes 'failed'
\* and ends transcribe_video, with no 'processing' write and no audio or
\* chunk file touched, and removes the video exactly when delete_after is
\* set; for the rest of the run the job stays 'failed' and is not queued or
\* transcribed again.
C19_CorruptFailsAtOnce ==
    [][/\ \A w \in TWorkers :
             ProbeReportsCorrupt(w) =>
                 LET j == tw[w].hearing.id
                 IN /\ db'[j].transcription_status = "failed"
                    /\ tw'[w].pc \in {"done", "escaped"}
                    /\ audio' = audio /\ chunks' = chunks
                    /\ videos[j] # "none"
                    /\ (videos'[j] = "none") <=> delete_after
                    /\ delete_after \/ videos'[j] = videos[j]
       /\ \A j \in Jobs :
             (errPassed[j] = "video_corrupted" /\ errPassed'[j] = "video_corrupted") =>
                 /\ db'[j].transcription_status = "failed"
                 /\ puts'.t[j] = puts.t[j]
                 /\ \A w \in TWorkers :
                       tw'[w].hearing.id = j => tw'[w].pc \in {"done", "escaped"}
      ]_vars

\* A corrupt video was reported with delete_after unset: the job is 'failed'
\* and its video is still there.
C19_Witness ==
    \E j \in Jobs :
        /\ errPassed[j] = "video_corrupted"
        /\ ~delete_after
        /\ videos[j] # "none"
        /\ db[j].transcription_status = "failed"

\* The jobs this run recorded as 'completed' or 'failed' in a phase.
DownloadsCompleted == {j \in Jobs : dlend[j] \in {"ok", "ok_last"}}
DownloadsFailed == {j \in Jobs : dlend[j] = "failed"}
TranscriptionsFailed == {j \in Jobs : errPassed[j] \notin {"none", "download_error"}}
TranscriptionsCompleted ==
    {j \in Jobs : puts.t[j] > 0 /\ db[j].transcription_status = "completed"}
        \ TranscriptionsFailed

\* C20: within a process no counter decreases, and when process_hearings
\* returns each phase's 'successful' and 'failed' counters equal the numbers
\* of jobs the run recorded as 'completed' and as 'failed' in that phase.
C20_CountersMatchStore ==
    [][/\ run' = run =>
             /\ performance_stats'.d_successful >= performance_stats.d_successful
             /\ performance_stats'.d_failed >= performance_stats.d_failed
             /\ performance_stats'.t_successful >= performance_stats.t_successful
             /\ performance_stats'.t_failed >= performance_stats.t_failed
       /\ main_pc' = "returned" =>
             /\ performance_stats'.d_successful = Cardinality(DownloadsCompleted')
             /\ performance_stats'.d_failed = Cardinality(DownloadsFailed')
             /\ performance_stats'.t_successful = Cardinality(TranscriptionsCompleted')
             /\ performance_stats'.t_failed = Cardinality(TranscriptionsFailed')
      ]_vars

\* What a step leaves of the rows and files of the jobs other than j.
OthersUntouched(j) ==
    \A i \in Jobs \ {j} :
        /\ db'[i] = db[i]
        /\ videos'[i] = videos[i]
        /\ chunks'[i] = chunks[i]
        /\ (i \in audio') <=> (i \in audio)

\* C21: the step that ends the handling of a failed chunk leaves the job
\* with transcription_status = 'failed', never 'completed', and changes no
\* row or file of another job.
C21_ChunkFailureFailsJob ==
    [][\A w \in TWorkers :
          (tw[w].chunk_failed /\ tw[w].pc = "except"
              /\ tw'[w].pc \in {"done", "escaped"}) =>
              /\ db'[tw[w].hearing.id].transcription_status = "failed"
              /\ OthersUntouched(tw[w].hearing.id)
      ]_vars

\* C22: on the success path the audio file is still there when the
\* transcript is merged and persisted, 'completed' is written before the
\* temporaries go, the final step removes the audio and chunk files and
\* the video exactly when delete_after is set; no step of a transcription
\* worker removes the video of a job that is 'pending' or 'processing'
\* (a step that writes the status does so before it unlinks, so the status
\* at the unlink is the one the step leaves).
C22_SuccessPathOrder ==
    [][\A w \in TWorkers :
          LET j == tw[w].hearing.id IN
          /\ (tw[w].pc = "write" /\ tw'[w].pc = "persist") =>
                /\ j \in audio' /\ videos' = videos
                /\ db'[j].transcription_status = "processing"
          /\ (tw[w].pc = "persist" /\ tw'[w].pc = "cleanup") =>
                /\ j \in audio' /\ videos' = videos
                /\ db'[j].transcription_status = "completed"
          /\ (tw[w].pc = "cleanup" /\ tw'[w].pc = "done") =>
                /\ db[j].transcription_status = "completed"
                /\ j \notin audio' /\ chunks'[j] = {}
                /\ videos[j] # "none"
                /\ (videos'[j] = "none") <=> delete_after
          /\ (j \in Jobs /\ tw'[w] # tw[w] /\ tw'[w].pc # "get"
                /\ videos'[j] # videos[j]) =>
                db'[j].transcription_status \notin {"pending", "processing"}
      ]_vars

\* A transcription ran to its end with delete_after unset: the job is
\* 'completed', its temporaries are gone and its video is still there.
C22_Witness ==
    \E w \in TWorkers :
        /\ tw[w].pc = "done"
        /\ ~delete_after
        /\ db[tw[w].hearing.id].transcription_status = "completed"
        /\ videos[tw[w].hearing.id] # "none"
        /\ tw[w].hearing.id \notin audio

\* C23: the chunks emitted so far carry the indices 0, 1, ... in emission
\* order, their starts strictly increase, and each starts at or after the
\* end of the one before it.
C23_IndicesConsecutive ==
    /\ chunk_num = Len(split_chunks)
    /\ \A i \in 1..Len(split_chunks) : split_chunks[i].index = i - 1
    /\ \A i \in 1..(Len(split_chunks) - 1) :
          /\ split_chunks[i].start < split_chunks[i + 1].start
          /\ split_chunks[i].start + split_chunks[i].duration <= split_chunks[i + 1].start

\* The plan is complete and a short span was skipped between two chunks.
C23_Witness ==
    /\ Planned
    /\ \E i \in 1..(Len(split_chunks) - 1) :
          split_chunks[i].start + split_chunks[i].duration < split_chunks[i + 1].start

\* C25: every pass of the while loop moves current_start forward, and the
\* loop ends.
C25_PlannerTerminates ==
    /\ [][current_start' > current_start]_vars
    /\ <>Planned

\* The loop ended after several passes, one of which stopped at a silence.
C25_Witness ==
    /\ Planned
    /\ Len(split_chunks) >= 2
    /\ \E i \in 1..Len(split_chunks) :
          split_chunks[i].start + split_chunks[i].duration \in SilenceEndsNear(0, duration)
    /\ chunk_duration < duration

\* C26: every emitted chunk lasts more than 0.5 s and at most
\* chunk_duration + 5 s; a pass over a span of 0.5 s or less appends no
\* chunk and leaves chunk_num as it was.
C26_ChunkDurationBounds ==
    [][/\ \A i \in 1..Len(split_chunks') :
             /\ split_chunks'[i].duration > MinChunkTicks
             /\ split_chunks'[i].duration <= chunk_duration + LookaheadTicks
       /\ (current_start' - current_start <= MinChunkTicks) =>
             (split_chunks' = split_chunks /\ chunk_num' = chunk_num)
      ]_vars

\* A chunk of exactly chunk_duration + 5 s was emitted and a span of
\* exactly 0.5 s was skipped after a chunk.
C26_Witness ==
    /\ \E i \in 1..Len(split_chunks) :
          split_chunks[i].duration = chunk_duration + LookaheadTicks
    /\ split_chunks # <<>>
    /\ LET last == split_chunks[Len(split_chunks)]
       IN current_start = last.start + last.duration + MinChunkTicks

\* The worker whose transcribe_video is at the existence test or at the
\* integrity probe of job j.
AtVideoChecks(j) ==
    \E w \in TWorkers : tw[w].hearing.id = j /\ tw[w].pc \in {"exists", "probe"}

\* C24: a step changes a job's transcription_status only from 'pending' to
\* 'processing', from 'processing' to 'completed' or 'failed', or from
\* 'pending' to 'failed' at the existence test or the integrity probe;
\* 'completed' and 'failed' are never left.
C24_StatusTransitions ==
    [][\A j \in Jobs :
          LET old == db[j].transcription_status
              new == db'[j].transcription_status
          IN new # old =>
                \/ old = "pending" /\ new = "processing"
                \/ old = "processing" /\ new \in {"completed", "failed"}
                \/ old = "pending" /\ new = "failed" /\ AtVideoChecks(j)
      ]_vars

\* C27: when transcribe_video is at the chunk dispatch, the chunk-worker
\* count it computes for the plan it holds is at least 1.
C27_ChunkWorkersAtLeastOne ==
    \A w \in TWorkers :
        tw[w].pc = "pool" => ChunkWorkers(tw[w].nchunks) >= 1

\* C28: when no thread is inside a "+= 1", the successful and failed
\* transcription counters together equal the number of "+= 1" statements
\* that were executed.
C28_NoLostCounterUpdate ==
    (\A w \in TWorkers : increments[w].pc = "load") =>
        performance_stats.t_successful + performance_stats.t_failed = executed

\* Every segment the model yielded starts inside its chunk.
LocalStartsInChunk ==
    \A k \in 1..Len(model_segments) :
        \A i \in 1..Len(model_segments[k]) :
            /\ 0 <= model_segments[k][i].start
            /\ model_segments[k][i].start <= split_chunks[k].duration

\* The segments of the results chunk by chunk, each chunk's in time order.
RECURSIVE ChunkByChunk(_)
ChunkByChunk(list) ==
    IF list = <<>> THEN <<>>
    ELSE SortByStart(list[1].segments) \o ChunkByChunk(Tail(list))

\* C29: when every chunk-local segment start lies within its chunk, the
\* merged, time-sorted segment list is the segments of chunk 0, then those
\* of chunk 1, and so on (the results being in chunk-index order after the
\* merge), and every segment starts inside the span of its chunk.
C29_TimeOrderIsChunkOrder ==
    (merged # <<>> /\ LocalStartsInChunk) =>
        /\ \A k \in 1..Len(chunk_results) :
              /\ chunk_results[k].chunk_index = k - 1
              /\ \A i \in 1..Len(chunk_results[k].segments) :
                    /\ split_chunks[k].start <= chunk_results[k].segments[i].start
                    /\ chunk_results[k].segments[i].start
                          <= split_chunks[k].start + split_chunks[k].duration
        /\ merged[1].segments = ChunkByChunk(chunk_results)

\* Two chunks were merged; a segment at the very end of chunk 0 and one at
\* the very start of chunk 1 carry the same rebased start, and the local
\* start of the former is the later one.
C29_Witness ==
    /\ merged # <<>>
    /\ LocalStartsInChunk
    /\ Len(chunk_results) = 2
    /\ split_chunks[2].start = split_chunks[1].start + split_chunks[1].duration
    /\ \E i \in 1..Len(chunk_results[1].segments) :
          \E k \in 1..Len(chunk_results[2].segments) :
              chunk_results[1].segments[i].start = chunk_results[2].segments[k].start

\* The jobs the two SELECTs of this run returned.
Fetched == Range(hearings_to_download) \cup Range(hearings_to_transcribe)

\* C30: when process_hearings has returned, no fetched job is
\* 'downloading' or 'processing', every job fetched for download is
\* 'completed' or 'failed', and every fetched job whose download is
\* 'completed' has its transcription 'completed' or 'failed'.
C30_NothingInFlightAtReturn ==
    main_pc = "returned" =>
        \A j \in Fetched :
            /\ db[j].download_status # "downloading"
            /\ db[j].transcription_status # "processing"
            /\ (j \in Range(hearings_to_download)) =>
                  db[j].download_status \in {"completed", "failed"}
            /\ db[j].download_status = "completed" =>
                  db[j].transcription_status \in {"completed", "failed"}

====
